---- MODULE Spec2Model ----
(***************************************************************************)
(* A model of the foodgram backend (backend/api): the recipe write path of *)
(* RecipeWriteSerializer behind RecipeViewSet, and the favorite, shopping  *)
(* cart and follow edges of RecipeViewSet.handle_add_or_remove and         *)
(* UserWithSubscriptionViewSet.subscribe.                                  *)
(*                                                                         *)
(* The database is a set of tables.  Django runs in autocommit mode: no    *)
(* handler of api/views.py or api/serializers.py opens a transaction, so   *)
(* every ORM statement of a handler commits on its own and is one step of  *)
(* the request that issues it.  A request is a process: pc is its position *)
(* in the handler, req its local data, resp the response it produced.      *)
(***************************************************************************)
EXTENDS Integers, Sequences, FiniteSets, Bags, TLC

(* ------------------------------ bounds -------------------------------- *)

\* longest ingredient list / tag list a request submits
MaxLen == 2
\* largest amount a request submits for an ingredient line
MaxAmount == 1

(* ------------------------------ domains ------------------------------- *)

Procs == {"w1", "w2"}
Users == {"u1", "u2"}
Anonymous == "anon"
\* primary keys a recipe can get
RecipeIds == {1}
\* rows of the Ingredient and Tag tables (reference data, never written here)
IngredientCatalog == {1, 2}
TagCatalog == {1, 2}
\* primary keys that are in no table
UnknownIds == {8, 9}
UnknownId == CHOOSE id \in UnknownIds : \A other \in UnknownIds : id >= other
Names == {"a", "b"}
CookingTimes == {0, 1}
Amounts == 0..MaxAmount

\* food/constants.py
INGREDIENT_MIN_AMOUNT == 1
RECIPE_MIN_COOKING_TIME == 1

(* ------------------------------ helpers ------------------------------- *)

SeqsUpTo(S, n) == UNION {[1..k -> S] : k \in 0..n}

Range(s) == {s[i] : i \in DOMAIN s}

\* collections.Counter(...) and the ids that occur more than once
Counter(s) == [x \in Range(s) |-> Cardinality({i \in DOMAIN s : s[i] = x})]

DuplicateIds(ids) == {x \in DOMAIN Counter(ids) : Counter(ids)[x] > 1}

\* the rows of bag b that satisfy P are kept
BagFilter(b, keep) == [x \in {y \in DOMAIN b : keep[y]} |-> b[x]]

\* a list of rows as a bag of rows
BagOfSeq(s) == [x \in Range(s) |-> Cardinality({i \in DOMAIN s : s[i] = x})]

(* ------------------------------- state -------------------------------- *)

VARIABLES
    recipes,            \* Recipe table: id -> [author, name, cooking_time]
    recipe_tags,        \* Recipe.tags through table: bag of <<recipe, tag>>
    recipe_ingredients, \* RecipeIngredient table: bag of [recipe, ingredient, amount]
    favorites,          \* Favorite table: bag of <<user, recipe>>
    cart,               \* ShoppingCartItem table: bag of <<user, recipe>>
    follows,            \* Follow table: bag of <<follower, author>>
    pc,                 \* position of each request in its handler
    req,                \* local data of each request
    resp,               \* response of each request
    snap,    \* history: the recipe tables as they were when the request started writing
    model_table,        \* table of the model a load command fills: set of rows
    console,            \* what the last run of a load command wrote
    last_download \* history: the shopping list downloaded last and who asked for it

db == <<recipes, recipe_tags, recipe_ingredients>>
edges == <<favorites, cart, follows>>
\* what no request of the API writes
offline == <<model_table, console, last_download>>
vars == <<recipes, recipe_tags, recipe_ingredients, favorites, cart, follows,
          pc, req, resp, snap, model_table, console, last_download>>

NoReq == [kind |-> "none"]
NoResp == [status |-> 0]
NoSnap == <<>>
NoOutput == [stdout |-> <<>>, stderr |-> <<>>]
NoList == [status |-> 0]

\* no load command has run, nobody has downloaded a shopping list
InitOffline ==
    /\ model_table = {}
    /\ console = NoOutput
    /\ last_download = NoList

Init ==
    /\ recipes = <<>>
    /\ recipe_tags = EmptyBag
    /\ recipe_ingredients = EmptyBag
    /\ favorites = EmptyBag
    /\ cart = EmptyBag
    /\ follows = EmptyBag
    /\ pc = [p \in Procs |-> "idle"]
    /\ req = [p \in Procs |-> NoReq]
    /\ resp = [p \in Procs |-> NoResp]
    /\ snap = [p \in Procs |-> NoSnap]
    /\ InitOffline

(* ----------------------- recipe write: validation --------------------- *)

\* one validation error: the field, the error code and the ids it names
Err(field, code, ids) == [field |-> field, code |-> code, ids |-> ids]

\* an item of the ingredient submission: an object with the keys id and
\* amount, either of which a client can leave out (here: the amount of a
\* catalog ingredient, or the id of an item with the smallest valid amount)
ItemIds == IngredientCatalog \cup UnknownIds

Items ==
    [id : ItemIds, amount : Amounts]
    \cup {[id |-> i] : i \in IngredientCatalog}
    \cup {[amount |-> INGREDIENT_MIN_AMOUNT]}

\* RecipeIngredientWriteSerializer on one item: PrimaryKeyRelatedField over
\* Ingredient.objects.all() and IntegerField(min_value=INGREDIENT_MIN_AMOUNT);
\* a serializer collects the errors of all its fields.  A field whose key is
\* missing is an error unless the root serializer is partial (PATCH), where
\* the field is skipped and the validated item lacks the key
RecipeIngredientWriteSerializer(item, partial) ==
    (IF "id" \notin DOMAIN item
     THEN IF partial THEN {} ELSE {Err("ingredients", "required", {})}
     ELSE IF item["id"] \in IngredientCatalog THEN {}
     ELSE {Err("ingredients", "does_not_exist", {item["id"]})})
    \cup
    (IF "amount" \notin DOMAIN item
     THEN IF partial THEN {} ELSE {Err("ingredients", "required", {})}
     ELSE IF item["amount"] >= INGREDIENT_MIN_AMOUNT THEN {}
     ELSE {Err("ingredients", "min_value", {})})

\* a list serializer that stops at the first item it rejects
IngredientsField_first_error(items, partial) ==
    LET bad == {i \in DOMAIN items :
                    RecipeIngredientWriteSerializer(items[i], partial) # {}}
    IN  IF bad = {} THEN {}
        ELSE RecipeIngredientWriteSerializer(
                 items[CHOOSE i \in bad : \A j \in bad : i <= j], partial)

\* the many=True list serializer validates every item and collects the errors
IngredientsField(items, partial) ==
    UNION {RecipeIngredientWriteSerializer(items[i], partial) : i \in DOMAIN items}

\* item['ingredient'] in validate_ingredients and item['amount'] in
\* create_ingredients raise KeyError on a validated item that lacks the key
KeyError(items, key) == \E i \in DOMAIN items : key \notin DOMAIN items[i]

\* validate_ingredients without the Counter check
validate_ingredients_no_counter(ingredients) ==
    IF ingredients = <<>> THEN {Err("ingredients", "empty", {})} ELSE {}

validate_ingredients(ingredients) ==
    IF ingredients = <<>>
    THEN {Err("ingredients", "empty", {})}
    ELSE LET duplicate_ids == DuplicateIds([i \in DOMAIN ingredients |->
                                               ingredients[i]["id"]])
         IN  IF duplicate_ids = {} THEN {}
             ELSE {Err("ingredients", "duplicate", duplicate_ids)}

\* PrimaryKeyRelatedField(queryset=Tag.objects.all(), many=True): the list
\* comprehension of ManyRelatedField raises at the first unknown pk
TagsField(tags) ==
    LET bad == {i \in DOMAIN tags : tags[i] \notin TagCatalog}
    IN  IF bad = {} THEN {}
        ELSE {Err("tags", "does_not_exist",
                  {tags[CHOOSE i \in bad : \A j \in bad : i <= j]})}

\* validate_tags without the Counter check
validate_tags_no_counter(tags) ==
    IF tags = <<>> THEN {Err("tags", "empty", {})} ELSE {}

validate_tags(tags) ==
    IF tags = <<>>
    THEN {Err("tags", "empty", {})}
    ELSE LET duplicate_ids == DuplicateIds(tags)
         IN  IF duplicate_ids = {} THEN {}
             ELSE {Err("tags", "duplicate", duplicate_ids)}

\* Meta.fields that lists author as a writable field
MetaFields_with_author == {"name", "cooking_time", "author"}

\* RecipeWriteSerializer.Meta.fields without the two nested lists; text and
\* image are declared like name and take the same path through the serializer
MetaFields == {"name", "cooking_time"}

\* keys a request body can carry next to ingredients and tags
PayloadKeys == {"name", "cooking_time", "author"}

\* the serializer reads the keys of Meta.fields and ignores every other key
ValidatedData(payload) ==
    [k \in DOMAIN payload \cap MetaFields |-> payload[k]]

\* required fields (a PATCH is partial=True and skips the check) and
\* IntegerField(min_value=RECIPE_MIN_COOKING_TIME)
FieldErrors(method, payload) ==
    {Err(k, "required", {}) : k \in {f \in MetaFields :
                                     f \notin DOMAIN payload /\ method # "PATCH"}}
    \cup
    (IF "cooking_time" \in DOMAIN payload
        /\ payload["cooking_time"] < RECIPE_MIN_COOKING_TIME
     THEN {Err("cooking_time", "min_value", {})} ELSE {})

\* validate that checks the two lists on POST only
validate_post_only(method, data) ==
    IF method = "POST"
    THEN IF "ingredients" \notin DOMAIN data
         THEN {Err("ingredients", "required", {})}
         ELSE IF "tags" \notin DOMAIN data
              THEN {Err("tags", "required", {})}
              ELSE {}
    ELSE {}

\* RecipeWriteSerializer.validate
validate(method, data) ==
    IF method \in {"POST", "PATCH"}
    THEN IF "ingredients" \notin DOMAIN data
         THEN {Err("ingredients", "required", {})}
         ELSE IF "tags" \notin DOMAIN data
              THEN {Err("tags", "required", {})}
              ELSE {}
    ELSE {}

\* a permission class that lets every request through
IsAuthorOrReadOnly_open(method, obj, user) == TRUE

\* IsAuthorOrReadOnly.has_object_permission
IsAuthorOrReadOnly(method, obj, user) ==
    method \in {"GET", "HEAD", "OPTIONS"} \/ obj.author = user

(* ------------------------- recipe write: tables ----------------------- *)

\* recipe.tags.set(tags) of the related manager: the rows of the recipe whose
\* tag is not in tags are removed, and add() inserts one row for every tag of
\* tags that has no row yet (it works on the set of ids)
TagsSet(rows, recipe, tags) ==
    LET kept == BagFilter(rows, [x \in DOMAIN rows |->
                                   x[1] # recipe \/ x[2] \in Range(tags)])
        missing == {<<recipe, t>> : t \in Range(tags)} \ DOMAIN kept
    IN  kept (+) SetToBag(missing)

\* instance.ingredients_in_recipe.all().delete()
DeleteIngredients(rows, recipe) ==
    BagFilter(rows, [x \in DOMAIN rows |-> x.recipe # recipe])

\* RecipeWriteSerializer.create_ingredients: one row per submitted item
create_ingredients(rows, ingredients, recipe) ==
    rows (+) BagOfSeq([i \in DOMAIN ingredients |->
                          [recipe |-> recipe,
                           ingredient |-> ingredients[i]["id"],
                           amount |-> ingredients[i]["amount"]]])

\* ModelSerializer.update: setattr for every key of validated_data, then save
ApplyFields(instance, data) ==
    [f \in DOMAIN instance |-> IF f \in DOMAIN data THEN data[f] ELSE instance[f]]

\* validated_data.pop(key, default)
Pop(data, key, default) == IF key \in DOMAIN data THEN data[key] ELSE default

Without(data, keys) == [k \in DOMAIN data \ keys |-> data[k]]

(* ------------------------ recipe write: requests ---------------------- *)

\* history of a request: which invariants of the data model its submission
\* breaks (an empty list, a repeated id, an amount or a cooking time below 1)
BadIngredients(items) ==
    IF \/ items = <<>>
       \/ \E i, j \in DOMAIN items :
             /\ i # j /\ "id" \in DOMAIN items[i] /\ "id" \in DOMAIN items[j]
             /\ items[i]["id"] = items[j]["id"]
       \/ \E i \in DOMAIN items : "amount" \in DOMAIN items[i] /\ items[i]["amount"] < 1
    THEN {"ingredients"} ELSE {}

\* the ingredient ids a submission names
SubmittedIds(items) ==
    {items[i]["id"] : i \in {j \in DOMAIN items : "id" \in DOMAIN items[j]}}

BadTags(tags) ==
    IF tags = <<>> \/ \E i, j \in DOMAIN tags : i # j /\ tags[i] = tags[j]
    THEN {"tags"} ELSE {}

BadFields(payload) ==
    IF "cooking_time" \in DOMAIN payload /\ payload["cooking_time"] < 1
    THEN {"cooking_time"} ELSE {}

Done(p, status, errors) ==
    /\ pc' = [pc EXCEPT ![p] = "done"]
    /\ resp' = [resp EXCEPT ![p] = [status |-> status, errors |-> errors]]

Alone(p) == \A q \in Procs \ {p} : pc[q] = "idle"

InFlightCreates == Cardinality({q \in Procs : req[q].kind = "recipe"
                                             /\ req[q].method = "POST"
                                             /\ pc[q] # "done"})

\* RecipeViewSet create / update / partial_update up to the serializer:
\* IsAuthenticatedOrReadOnly, get_object, IsAuthorOrReadOnly
Dispatch(p) ==
    /\ pc[p] = "idle"
    /\ \E method \in {"POST", "PUT", "PATCH"}, user \in Users \cup {Anonymous},
          pk \in RecipeIds \cup {UnknownId} :
          LET r == [kind |-> "recipe", method |-> method, user |-> user, pk |-> pk,
                    instance |-> <<>>, data |-> <<>>, errors |-> {},
                    keys |-> {}, submitted |-> {}, violates |-> {}]
          IN
          /\ method = "POST" =>
                /\ pk = UnknownId
                /\ Cardinality(DOMAIN recipes) + InFlightCreates < Cardinality(RecipeIds)
          /\ IF user = Anonymous
             THEN /\ Done(p, 401, {})
                  /\ req' = [req EXCEPT ![p] = r]
             ELSE IF method = "POST"
             THEN /\ pc' = [pc EXCEPT ![p] = "v_ingredients"]
                  /\ req' = [req EXCEPT ![p] = r]
                  /\ UNCHANGED resp
             ELSE IF pk \notin DOMAIN recipes
             THEN /\ Done(p, 404, {})
                  /\ req' = [req EXCEPT ![p] = r]
             ELSE IF ~IsAuthorOrReadOnly(method, recipes[pk], user)
             THEN /\ Done(p, 403, {})
                  /\ req' = [req EXCEPT ![p] = r]
             ELSE /\ pc' = [pc EXCEPT ![p] = "v_ingredients"]
                  /\ req' = [req EXCEPT ![p] = [r EXCEPT !.instance = recipes[pk]]]
                  /\ UNCHANGED resp
    /\ UNCHANGED <<db, edges>>

\* the ingredients field of RecipeWriteSerializer and validate_ingredients;
\* a KeyError of validate_ingredients leaves is_valid as a server error
ValidateIngredients(p) ==
    /\ pc[p] = "v_ingredients"
    /\ \/ /\ req' = [req EXCEPT ![p].errors =
                        IF req[p].method = "PATCH" THEN @
                        ELSE @ \cup {Err("ingredients", "required", {})}]
          /\ pc' = [pc EXCEPT ![p] = "v_tags"]
          /\ UNCHANGED resp
       \/ \E items \in SeqsUpTo(Items, MaxLen) :
             LET partial == req[p].method = "PATCH"
                 field == IngredientsField(items, partial)
                 raises == field = {} /\ items # <<>> /\ KeyError(items, "id")
                 errs == IF field # {} THEN field
                         ELSE IF raises THEN {}
                         ELSE validate_ingredients(items)
             IN /\ req' = [req EXCEPT
                             ![p].keys = @ \cup {"ingredients"},
                             ![p].submitted = SubmittedIds(items),
                             ![p].violates = @ \cup BadIngredients(items),
                             ![p].errors = @ \cup errs,
                             ![p].data = IF errs = {} /\ ~raises
                                         THEN @ @@ [ingredients |-> items]
                                         ELSE @]
                /\ IF raises
                   THEN Done(p, 500, {})
                   ELSE /\ pc' = [pc EXCEPT ![p] = "v_tags"]
                        /\ UNCHANGED resp
    /\ UNCHANGED <<db, edges>>

\* the tags field of RecipeWriteSerializer and validate_tags
ValidateTags(p) ==
    /\ pc[p] = "v_tags"
    /\ \/ /\ req' = [req EXCEPT ![p].errors =
                        IF req[p].method = "PATCH" THEN @
                        ELSE @ \cup {Err("tags", "required", {})}]
       \/ \E tags \in SeqsUpTo(TagCatalog \cup {UnknownId}, MaxLen) :
             LET errs == IF TagsField(tags) # {}
                         THEN TagsField(tags)
                         ELSE validate_tags(tags)
             IN req' = [req EXCEPT
                          ![p].keys = @ \cup {"tags"},
                          ![p].violates = @ \cup BadTags(tags),
                          ![p].errors = @ \cup errs,
                          ![p].data = IF errs = {} THEN @ @@ [tags |-> tags]
                                      ELSE @]
    /\ pc' = [pc EXCEPT ![p] = "v_fields"]
    /\ UNCHANGED <<db, edges, resp>>

\* the remaining fields, then RecipeWriteSerializer.validate; is_valid raises
\* before any statement is issued, otherwise the view calls save()
ValidateFields(p) ==
    /\ pc[p] = "v_fields"
    /\ \E keys \in SUBSET PayloadKeys, name \in Names, cooking_time \in CookingTimes,
          author \in Users :
          LET payload == [k \in keys |->
                              CASE k = "name" -> name
                                [] k = "cooking_time" -> cooking_time
                                [] k = "author" -> author]
              errors == req[p].errors \cup FieldErrors(req[p].method, payload)
              data == req[p].data @@ ValidatedData(payload)
              seen == [req[p] EXCEPT !.keys = @ \cup keys,
                                     !.violates = @ \cup BadFields(payload),
                                     !.errors = {}, !.data = <<>>]
          IN
          IF errors # {}
          THEN /\ Done(p, 400, errors)
               /\ req' = [req EXCEPT ![p] = seen]
          ELSE IF validate(req[p].method, data) # {}
          THEN /\ Done(p, 400, validate(req[p].method, data))
               /\ req' = [req EXCEPT ![p] = seen]
          ELSE /\ pc' = [pc EXCEPT ![p] = IF req[p].method = "POST"
                                          THEN "c_row" ELSE "u_tags"]
               /\ req' = [req EXCEPT ![p] = [seen EXCEPT !.data = data]]
               /\ UNCHANGED resp
    /\ UNCHANGED <<db, edges>>

NextId == CHOOSE id \in RecipeIds \ DOMAIN recipes :
              \A other \in RecipeIds \ DOMAIN recipes : id <= other

\* RecipeWriteSerializer.create: super().create(validated_data)
CreateRow(p) ==
    /\ pc[p] = "c_row"
    /\ LET validated_data == [author |-> req[p].user]
                                 @@ Without(req[p].data, {"ingredients", "tags"})
       IN /\ recipes' = recipes @@ (NextId :> validated_data)
          /\ req' = [req EXCEPT ![p].pk = NextId]
    /\ pc' = [pc EXCEPT ![p] = "c_tags"]
    /\ UNCHANGED <<recipe_tags, recipe_ingredients, edges, resp>>

\* RecipeWriteSerializer.create: recipe.tags.set(tags)
CreateTags(p) ==
    /\ pc[p] = "c_tags"
    /\ recipe_tags' = TagsSet(recipe_tags, req[p].pk, req[p].data["tags"])
    /\ pc' = [pc EXCEPT ![p] = "c_ingredients"]
    /\ UNCHANGED <<recipes, recipe_ingredients, edges, req, resp>>

\* RecipeWriteSerializer.create: self.create_ingredients(ingredients, recipe)
CreateIngredients(p) ==
    /\ pc[p] = "c_ingredients"
    /\ IF KeyError(req[p].data["ingredients"], "amount")
       THEN /\ Done(p, 500, {})
            /\ UNCHANGED recipe_ingredients
       ELSE /\ recipe_ingredients' =
                  create_ingredients(recipe_ingredients,
                                     req[p].data["ingredients"], req[p].pk)
            /\ Done(p, 201, {})
    /\ UNCHANGED <<recipes, recipe_tags, edges, req>>

\* RecipeWriteSerializer.update: instance.tags.set(tags_data)
UpdateTags(p) ==
    /\ pc[p] = "u_tags"
    /\ recipe_tags' = TagsSet(recipe_tags, req[p].pk, Pop(req[p].data, "tags", <<>>))
    /\ pc' = [pc EXCEPT ![p] = "u_delete"]
    /\ UNCHANGED <<recipes, recipe_ingredients, edges, req, resp>>

\* RecipeWriteSerializer.update: instance.ingredients_in_recipe.all().delete()
UpdateDelete(p) ==
    /\ pc[p] = "u_delete"
    /\ recipe_ingredients' = DeleteIngredients(recipe_ingredients, req[p].pk)
    /\ pc' = [pc EXCEPT ![p] = "u_ingredients"]
    /\ UNCHANGED <<recipes, recipe_tags, edges, req, resp>>

\* RecipeWriteSerializer.update: self.create_ingredients(ingredients_data, instance)
UpdateIngredients(p) ==
    /\ pc[p] = "u_ingredients"
    /\ LET ingredients_data == Pop(req[p].data, "ingredients", <<>>)
       IN IF KeyError(ingredients_data, "amount")
          THEN /\ Done(p, 500, {})
               /\ UNCHANGED recipe_ingredients
          ELSE /\ recipe_ingredients' =
                     create_ingredients(recipe_ingredients, ingredients_data, req[p].pk)
               /\ pc' = [pc EXCEPT ![p] = "u_save"]
               /\ UNCHANGED resp
    /\ UNCHANGED <<recipes, recipe_tags, edges, req>>

\* RecipeWriteSerializer.update: super().update(instance, validated_data)
UpdateSave(p) ==
    /\ pc[p] = "u_save"
    /\ recipes' = [recipes EXCEPT ![req[p].pk] =
                       ApplyFields(req[p].instance,
                                   Without(req[p].data, {"ingredients", "tags"}))]
    /\ Done(p, 200, {})
    /\ UNCHANGED <<recipe_tags, recipe_ingredients, edges, req>>

WritePcs == {"c_row", "c_tags", "c_ingredients",
             "u_tags", "u_delete", "u_ingredients", "u_save"}

\* the storage raises on the statement the request is about to issue: the
\* exception leaves the handler, the statements before it stay committed
StorageError(p) ==
    /\ pc[p] \in WritePcs
    /\ Done(p, 500, {})
    /\ UNCHANGED <<db, edges, req>>

\* the response is sent and the worker takes the next request
Return(p) ==
    /\ pc[p] = "done"
    /\ pc' = [pc EXCEPT ![p] = "idle"]
    /\ req' = [req EXCEPT ![p] = NoReq]
    /\ resp' = [resp EXCEPT ![p] = NoResp]
    /\ UNCHANGED <<db, edges>>

\* history variable of the atomicity check: the recipe tables at the moment
\* is_valid has passed and save() is about to issue its first statement
Snapshot(p) ==
    snap' = [snap EXCEPT ![p] =
                IF pc[p] = "v_fields" /\ pc'[p] \in WritePcs THEN db
                ELSE IF pc'[p] = "idle" THEN NoSnap
                ELSE @]

Worker == "w1"

\* requests are served one at a time by one worker, the storage never fails
Next ==
    \/ Dispatch(Worker) /\ UNCHANGED <<snap, offline>>
    \/ ValidateIngredients(Worker) /\ UNCHANGED <<snap, offline>>
    \/ ValidateTags(Worker) /\ UNCHANGED <<snap, offline>>
    \/ ValidateFields(Worker) /\ UNCHANGED <<snap, offline>>
    \/ CreateRow(Worker) /\ UNCHANGED <<snap, offline>>
    \/ CreateTags(Worker) /\ UNCHANGED <<snap, offline>>
    \/ CreateIngredients(Worker) /\ UNCHANGED <<snap, offline>>
    \/ UpdateTags(Worker) /\ UNCHANGED <<snap, offline>>
    \/ UpdateDelete(Worker) /\ UNCHANGED <<snap, offline>>
    \/ UpdateIngredients(Worker) /\ UNCHANGED <<snap, offline>>
    \/ UpdateSave(Worker) /\ UNCHANGED <<snap, offline>>
    \/ Return(Worker) /\ UNCHANGED <<snap, offline>>

Spec == Init /\ [][Next]_vars

\* requests are served one at a time by one worker, any statement can fail
NextAtomic ==
    \/ Dispatch(Worker) /\ Snapshot(Worker) /\ UNCHANGED offline
    \/ ValidateIngredients(Worker) /\ Snapshot(Worker) /\ UNCHANGED offline
    \/ ValidateTags(Worker) /\ Snapshot(Worker) /\ UNCHANGED offline
    \/ ValidateFields(Worker) /\ Snapshot(Worker) /\ UNCHANGED offline
    \/ CreateRow(Worker) /\ Snapshot(Worker) /\ UNCHANGED offline
    \/ CreateTags(Worker) /\ Snapshot(Worker) /\ UNCHANGED offline
    \/ CreateIngredients(Worker) /\ Snapshot(Worker) /\ UNCHANGED offline
    \/ UpdateTags(Worker) /\ Snapshot(Worker) /\ UNCHANGED offline
    \/ UpdateDelete(Worker) /\ Snapshot(Worker) /\ UNCHANGED offline
    \/ UpdateIngredients(Worker) /\ Snapshot(Worker) /\ UNCHANGED offline
    \/ UpdateSave(Worker) /\ Snapshot(Worker) /\ UNCHANGED offline
    \/ StorageError(Worker) /\ Snapshot(Worker) /\ UNCHANGED offline
    \/ Return(Worker) /\ Snapshot(Worker) /\ UNCHANGED offline

SpecAtomic == Init /\ [][NextAtomic]_vars

(* ------------------- concurrent updates of one recipe ----------------- *)

\* the recipe both updates address, as an earlier create has left it
StoredRecipe == [author |-> "u1", name |-> "a", cooking_time |-> 1]

\* the requests PATCH /recipes/1/ of the author that pass is_valid: permission
\* check and validation read only the catalogs and the author of the recipe,
\* which no request writes, so they have the same outcome under every
\* interleaving
ValidUpdates ==
    {[kind |-> "recipe", method |-> "PATCH", user |-> StoredRecipe.author, pk |-> 1,
      instance |-> StoredRecipe,
      data |-> [ingredients |-> items, tags |-> tags] @@ fields,
      errors |-> {},
      keys |-> {"ingredients", "tags"} \cup DOMAIN fields,
      submitted |-> SubmittedIds(items),
      violates |-> {}] :
        items \in {l \in SeqsUpTo(Items, MaxLen) :
                      /\ IngredientsField(l, TRUE) = {}
                      /\ ~KeyError(l, "id")
                      /\ validate_ingredients(l) = {}},
        tags \in {l \in SeqsUpTo(TagCatalog, MaxLen) :
                     TagsField(l) = {} /\ validate_tags(l) = {}},
        fields \in {f \in {<<>>} \cup {[name |-> n] : n \in Names} :
                       /\ FieldErrors("PATCH", f) = {}
                       /\ validate("PATCH", [ingredients |-> <<>>, tags |-> <<>>] @@ f) = {}}}

\* two workers are each about to run save() of an update of the same recipe
InitConc ==
    /\ recipes = (1 :> StoredRecipe)
    /\ recipe_tags = SetToBag({<<1, 1>>})
    /\ recipe_ingredients = SetToBag({[recipe |-> 1, ingredient |-> 1, amount |-> 1]})
    /\ favorites = EmptyBag
    /\ cart = EmptyBag
    /\ follows = EmptyBag
    /\ pc = [p \in Procs |-> "u_tags"]
    /\ req \in [Procs -> ValidUpdates]
    /\ resp = [p \in Procs |-> NoResp]
    /\ snap = [p \in Procs |-> NoSnap]
    /\ InitOffline

\* the statements of the two updates interleave freely
NextConc ==
    \/ \E p \in Procs : UpdateTags(p) /\ UNCHANGED <<snap, offline>>
    \/ \E p \in Procs : UpdateDelete(p) /\ UNCHANGED <<snap, offline>>
    \/ \E p \in Procs : UpdateIngredients(p) /\ UNCHANGED <<snap, offline>>
    \/ \E p \in Procs : UpdateSave(p) /\ UNCHANGED <<snap, offline>>

SpecConc == InitConc /\ [][NextConc]_vars

(* -------------------- favorite, cart and follow edges ----------------- *)

\* a primary key no user has
NoUser == "nobody"

\* a table without a unique constraint accepts every row
NoConstraint(rows, row) == FALSE

\* the unique constraint on the pair of Favorite, ShoppingCartItem and Follow:
\* an INSERT of a pair that has a row raises IntegrityError
UniqueViolation(rows, row) == CopiesIn(row, rows) > 0

\* model.objects.filter(...).exists() / .get(): the pair has a row
Exists(rows, row) == CopiesIn(row, rows) > 0

Insert(rows, row) == rows (+) SetToBag({row})

\* obj.delete(): DELETE of the row the lookup returned; it removes nothing
\* when the row is gone by then
DeleteRow(rows, row) ==
    IF CopiesIn(row, rows) > 0 THEN rows (-) SetToBag({row}) ELSE rows

\* the table an edge request works on
Table(kind) ==
    CASE kind = "favorite" -> favorites
      [] kind = "shopping_cart" -> cart
      [] kind = "subscribe" -> follows

\* all three tables with the one of kind replaced
SetTable(kind, rows) ==
    /\ favorites' = IF kind = "favorite" THEN rows ELSE favorites
    /\ cart' = IF kind = "shopping_cart" THEN rows ELSE cart
    /\ follows' = IF kind = "subscribe" THEN rows ELSE follows

\* handle_add_or_remove that answers a repeated add like a first one
AddStatus_idempotent(created) == 201

\* handle_add_or_remove after get_or_create: ValidationError unless created
AddStatus(created) == IF created THEN 201 ELSE 400

\* a delete that answers 204 whether or not the lookup found a row
RemoveStatus_silent(found) == 204

\* get_object_or_404(...).delete(): Http404 unless the lookup finds the row
RemoveStatus(found) == IF found THEN 204 ELSE 404

\* subscribe without the comparison of user and author
SelfFollow_unchecked(user, author) == FALSE

\* subscribe: if user == author: raise ValidationError
SelfFollow(user, author) == user = author

\* a subscribe that answers 201 whether or not the serializer is valid
FollowStatus_no_raise(valid) == 201

\* subscribe: serializer.is_valid(raise_exception=True) answers 400 unless the
\* data is valid, the Response after save() is 201
FollowStatus(valid) == IF valid THEN 201 ELSE 400

EdgeDone(p, status) ==
    /\ pc' = [pc EXCEPT ![p] = "done"]
    /\ resp' = [resp EXCEPT ![p] = [status |-> status, errors |-> {}]]

\* the actions favorite and shopping_cart of RecipeViewSet and subscribe of
\* UserWithSubscriptionViewSet up to their first statement on the edge table:
\* IsAuthenticated, get_object / get_object_or_404(User), the self-follow check
EdgeRequest(kind, method, user, pk) ==
    [kind |-> kind, method |-> method, user |-> user, pk |-> pk,
     edge |-> <<user, pk>>, found |-> FALSE]

EdgeDispatch(p) ==
    /\ pc[p] = "idle"
    /\ \E method \in {"POST", "DELETE"}, user \in Users \cup {Anonymous} :
          \/ \E kind \in {"favorite", "shopping_cart"}, pk \in RecipeIds \cup {UnknownId} :
                /\ req' = [req EXCEPT ![p] = EdgeRequest(kind, method, user, pk)]
                /\ IF user = Anonymous
                   THEN EdgeDone(p, 401)
                   ELSE IF pk \notin DOMAIN recipes
                   THEN EdgeDone(p, 404)
                   ELSE /\ pc' = [pc EXCEPT ![p] = IF method = "DELETE"
                                                   THEN "rm_get" ELSE "goc_get"]
                        /\ UNCHANGED resp
          \/ \E pk \in Users \cup {NoUser} :
                /\ req' = [req EXCEPT ![p] = EdgeRequest("subscribe", method, user, pk)]
                /\ IF user = Anonymous
                   THEN EdgeDone(p, 401)
                   ELSE IF method = "DELETE"
                   THEN /\ pc' = [pc EXCEPT ![p] = "rm_get"]
                        /\ UNCHANGED resp
                   ELSE IF pk \notin Users
                   THEN EdgeDone(p, 404)
                   ELSE IF SelfFollow(user, pk)
                   THEN EdgeDone(p, 400)
                   ELSE /\ pc' = [pc EXCEPT ![p] = "f_valid"]
                        /\ UNCHANGED resp
    /\ UNCHANGED <<db, edges>>

\* get_object_or_404(model, user=request.user, recipe=recipe) and
\* get_object_or_404(Follow, follower=request.user, author_id=pk)
RemoveGet(p) ==
    /\ pc[p] = "rm_get"
    /\ LET found == Exists(Table(req[p].kind), req[p].edge)
       IN /\ req' = [req EXCEPT ![p].found = found]
          /\ IF found
             THEN /\ pc' = [pc EXCEPT ![p] = "rm_delete"]
                  /\ UNCHANGED resp
             ELSE EdgeDone(p, RemoveStatus(found))
    /\ UNCHANGED <<db, edges>>

\* .delete() on the object the lookup returned
RemoveDelete(p) ==
    /\ pc[p] = "rm_delete"
    /\ SetTable(req[p].kind, DeleteRow(Table(req[p].kind), req[p].edge))
    /\ EdgeDone(p, RemoveStatus(req[p].found))
    /\ UNCHANGED <<db, req>>

\* get_or_create: the get
AddGet(p) ==
    /\ pc[p] = "goc_get"
    /\ LET found == Exists(Table(req[p].kind), req[p].edge)
       IN /\ req' = [req EXCEPT ![p].found = found]
          /\ IF found
             THEN EdgeDone(p, AddStatus(FALSE))
             ELSE /\ pc' = [pc EXCEPT ![p] = "goc_create"]
                  /\ UNCHANGED resp
    /\ UNCHANGED <<db, edges>>

\* get_or_create: the create after the get found no row
AddCreate(p) ==
    /\ pc[p] = "goc_create"
    /\ IF UniqueViolation(Table(req[p].kind), req[p].edge)
       THEN /\ pc' = [pc EXCEPT ![p] = "goc_reget"]
            /\ UNCHANGED <<edges, resp>>
       ELSE /\ SetTable(req[p].kind, Insert(Table(req[p].kind), req[p].edge))
            /\ EdgeDone(p, AddStatus(TRUE))
    /\ UNCHANGED <<db, req>>

\* get_or_create: the second get after IntegrityError; the error is raised
\* again when the row is gone by then
AddReget(p) ==
    /\ pc[p] = "goc_reget"
    /\ LET found == Exists(Table(req[p].kind), req[p].edge)
       IN /\ req' = [req EXCEPT ![p].found = found]
          /\ EdgeDone(p, IF found THEN AddStatus(FALSE) ELSE 500)
    /\ UNCHANGED <<db, edges>>

\* FollowCreateSerializer.is_valid: the pair must not have a row yet
FollowValid(p) ==
    /\ pc[p] = "f_valid"
    /\ LET found == Exists(follows, req[p].edge)
       IN /\ req' = [req EXCEPT ![p].found = found]
          /\ IF found
             THEN EdgeDone(p, FollowStatus(FALSE))
             ELSE /\ pc' = [pc EXCEPT ![p] = "f_save"]
                  /\ UNCHANGED resp
    /\ UNCHANGED <<db, edges>>

\* FollowCreateSerializer.save: INSERT of the pair
FollowSave(p) ==
    /\ pc[p] = "f_save"
    /\ IF UniqueViolation(follows, req[p].edge)
       THEN /\ EdgeDone(p, 500)
            /\ UNCHANGED edges
       ELSE /\ SetTable("subscribe", Insert(follows, req[p].edge))
            /\ EdgeDone(p, FollowStatus(TRUE))
    /\ UNCHANGED <<db, req>>

\* one recipe exists, no edges yet
InitEdges ==
    /\ recipes = (1 :> StoredRecipe)
    /\ recipe_tags = SetToBag({<<1, 1>>})
    /\ recipe_ingredients = SetToBag({[recipe |-> 1, ingredient |-> 1, amount |-> 1]})
    /\ favorites = EmptyBag
    /\ cart = EmptyBag
    /\ follows = EmptyBag
    /\ pc = [p \in Procs |-> "idle"]
    /\ req = [p \in Procs |-> NoReq]
    /\ resp = [p \in Procs |-> NoResp]
    /\ snap = [p \in Procs |-> NoSnap]
    /\ InitOffline

\* edge requests of any users run concurrently on the workers
NextEdges ==
    \/ \E p \in Procs : EdgeDispatch(p) /\ UNCHANGED <<snap, offline>>
    \/ \E p \in Procs : RemoveGet(p) /\ UNCHANGED <<snap, offline>>
    \/ \E p \in Procs : RemoveDelete(p) /\ UNCHANGED <<snap, offline>>
    \/ \E p \in Procs : AddGet(p) /\ UNCHANGED <<snap, offline>>
    \/ \E p \in Procs : AddCreate(p) /\ UNCHANGED <<snap, offline>>
    \/ \E p \in Procs : AddReget(p) /\ UNCHANGED <<snap, offline>>
    \/ \E p \in Procs : FollowValid(p) /\ UNCHANGED <<snap, offline>>
    \/ \E p \in Procs : FollowSave(p) /\ UNCHANGED <<snap, offline>>
    \/ \E p \in Procs : Return(p) /\ UNCHANGED <<snap, offline>>

SpecEdges == InitEdges /\ [][NextEdges]_vars

(* ---------------------- shopping list, recipe list -------------------- *)

\* largest amount of an ingredient line of a stored recipe
MaxStored == 2

\* primary keys of the recipes of the databases the read requests run on
ReadRecipeIds == {1, 2}
\* how many ingredient lines a stored recipe has
LineCounts == {1, 2}

\* the Ingredient table of the databases the read requests run on, with name
\* and measurement unit (the recipe writes above use its first two rows):
\* two rows share name and unit, a third shares only the name
Ingredient ==
    (1 :> [name |-> "salt", measurement_unit |-> "g"])
    @@ (2 :> [name |-> "flour", measurement_unit |-> "kg"])
    @@ (3 :> [name |-> "flour", measurement_unit |-> "g"])
    @@ (4 :> [name |-> "flour", measurement_unit |-> "g"])

\* the order of the database on ingredient names
Collation == <<"flour", "salt">>

NameRank(name) == CHOOSE i \in DOMAIN Collation : Collation[i] = name

\* the ingredient lists a stored recipe can have: not empty, no ingredient
\* twice, every amount at least INGREDIENT_MIN_AMOUNT
LineSets ==
    {lines \in SUBSET [ingredient : DOMAIN Ingredient,
                       amount : INGREDIENT_MIN_AMOUNT..MaxStored] :
        /\ Cardinality(lines) \in LineCounts
        /\ \A x, y \in lines : x.ingredient = y.ingredient => x = y}

\* Recipe.objects.filter(shoppingcartitems__user=user), as it is used behind
\* recipe__in and behind the recipe list: the recipes with a cart row of user
InCart(user) == {r \in DOMAIN recipes : CopiesIn(<<user, r>>, cart) > 0}

\* RecipeIngredient.objects.filter(recipe__in=recipes)
LinesOf(recipe_set) ==
    BagFilter(recipe_ingredients,
              [x \in DOMAIN recipe_ingredients |-> x.recipe \in recipe_set])

\* grouping by the primary key of the ingredient as well
values_by_id(x) ==
    <<Ingredient[x.ingredient].name, Ingredient[x.ingredient].measurement_unit,
      x.ingredient>>

\* .values('ingredient__name', 'ingredient__measurement_unit'): the columns
\* the rows are grouped by
values(x) ==
    <<Ingredient[x.ingredient].name, Ingredient[x.ingredient].measurement_unit>>

RECURSIVE SumAmount(_, _)
\* models.Sum('amount') over the rows S of the bag rows
SumAmount(rows, S) ==
    IF S = {} THEN 0
    ELSE LET x == CHOOSE y \in S : TRUE
         IN  rows[x] * x.amount + SumAmount(rows, S \ {x})

\* .values(...).annotate(total_amount=models.Sum('amount')): one row per group
annotate(rows) ==
    {[ingredient__name |-> Ingredient[x.ingredient].name,
      ingredient__measurement_unit |-> values(x)[2],
      total_amount |-> SumAmount(rows, {y \in DOMAIN rows : values(y) = values(x)})] :
        x \in DOMAIN rows}

\* every arrangement of the rows of S in a list
Arrangements(S) ==
    {s \in [1..Cardinality(S) -> S] : \A i, j \in DOMAIN s : i # j => s[i] # s[j]}

\* .order_by('ingredient__name'): names ascending; the query names no second
\* column, so the database is free in the order of rows with equal names
order_by(rows) ==
    {s \in Arrangements(rows) :
        \A i, j \in DOMAIN s :
            i < j => NameRank(s[i].ingredient__name) <= NameRank(s[j].ingredient__name)}

\* the template shopping_list.txt: one line per row, name, unit and total
render_to_string(ingredients) ==
    [i \in DOMAIN ingredients |->
        <<ingredients[i].ingredient__name,
          ingredients[i].ingredient__measurement_unit,
          ingredients[i].total_amount>>]

\* a response that reports an empty shopping list as not found
HttpResponse_not_found(content) ==
    [status |-> IF content = <<>> THEN 404 ELSE 200, errors |-> {}, lines |-> content]

\* HttpResponse(content, content_type='text/plain; charset=utf-8')
HttpResponse(content) == [status |-> 200, errors |-> {}, lines |-> content]

\* RecipeViewSet.download_shopping_cart behind IsAuthenticated
Download(p) ==
    /\ pc[p] = "idle"
    /\ \E user \in Users \cup {Anonymous} :
          /\ req' = [req EXCEPT ![p] = [kind |-> "download", user |-> user]]
          /\ IF user = Anonymous
             THEN /\ Done(p, 401, {})
                  /\ UNCHANGED last_download
             ELSE \E ingredients \in order_by(annotate(LinesOf(InCart(user)))) :
                     LET response == HttpResponse(render_to_string(ingredients))
                     IN /\ pc' = [pc EXCEPT ![p] = "done"]
                        /\ resp' = [resp EXCEPT ![p] = response]
                        /\ last_download' = [user |-> user] @@ response
    /\ UNCHANGED <<db, edges, snap, model_table, console>>

\* values of the query parameter is_in_shopping_cart
QueryValues == {"absent", "0", "1", "false", "true"}

\* truth of request.query_params.get(name) in an if: None and the empty string
\* are false, every other string is true
Truthy(value) == value \notin {"absent", ""}

\* BooleanFilter of django_filters.rest_framework: the value the filter method
\* gets; the method is not called for an absent parameter
BooleanFilter(value) ==
    CASE value \in {"1", "true"} -> "True"
      [] value \in {"0", "false"} -> "False"
      [] OTHER -> "None"

\* RecipeViewSet.get_queryset
get_queryset(user, is_in_cart) ==
    IF Truthy(is_in_cart) /\ user # Anonymous THEN InCart(user) ELSE DOMAIN recipes

\* RecipeFilter.filter_is_in_shopping_cart
filter_is_in_shopping_cart(queryset, user, value) ==
    IF value = "True" /\ user # Anonymous THEN queryset \cap InCart(user) ELSE queryset

\* GET /recipes/: get_queryset, then the filterset
List(p) ==
    /\ pc[p] = "idle"
    /\ \E user \in Users \cup {Anonymous}, is_in_cart \in QueryValues :
          LET value == BooleanFilter(is_in_cart)
              queryset == get_queryset(user, is_in_cart)
              results == IF value = "None" THEN queryset
                         ELSE filter_is_in_shopping_cart(queryset, user, value)
          IN /\ req' = [req EXCEPT ![p] = [kind |-> "list", user |-> user,
                                            is_in_shopping_cart |-> is_in_cart]]
             /\ pc' = [pc EXCEPT ![p] = "done"]
             /\ resp' = [resp EXCEPT ![p] = [status |-> 200, errors |-> {},
                                              results |-> results]]
    /\ UNCHANGED <<db, edges, snap, offline>>

\* a database of two recipes with any valid ingredient lists and any cart
\* rows of the users
InitCart ==
    /\ recipes = [r \in ReadRecipeIds |-> StoredRecipe]
    /\ recipe_tags = SetToBag({<<r, 1>> : r \in ReadRecipeIds})
    /\ \E lines \in [ReadRecipeIds -> LineSets] :
          recipe_ingredients =
              SetToBag(UNION {{[recipe |-> r, ingredient |-> x.ingredient,
                                amount |-> x.amount] : x \in lines[r]} :
                                 r \in ReadRecipeIds})
    /\ favorites = EmptyBag
    /\ \E rows \in SUBSET (Users \X ReadRecipeIds) : cart = SetToBag(rows)
    /\ follows = EmptyBag
    /\ pc = [p \in Procs |-> "idle"]
    /\ req = [p \in Procs |-> NoReq]
    /\ resp = [p \in Procs |-> NoResp]
    /\ snap = [p \in Procs |-> NoSnap]
    /\ InitOffline

\* read requests are served one after another
NextCart ==
    \/ Download(Worker)
    \/ List(Worker)
    \/ Return(Worker) /\ UNCHANGED <<snap, offline>>

SpecCart == InitCart /\ [][NextCart]_vars

(* ----------------------------- subscriptions -------------------------- *)

\* the values of recipes_limit in the query string, and what int() makes of
\* the numerals among them; int() of any other text raises ValueError
LimitTexts == {"0", "1", "2", "3", "-1", "x"}

Numerals == ("0" :> 0) @@ ("1" :> 1) @@ ("2" :> 2) @@ ("3" :> 3) @@ ("-1" :> (0 - 1))

\* stands for the 10 ** 10 of get_recipes, which is beyond the integers of the
\* checker; like it, it is above the length of every recipe list
DefaultLimit == 1000000000

\* request.GET: with or without the parameter recipes_limit
Queries == {<<>>} \cup {[recipes_limit |-> text] : text \in LimitTexts}

\* queryset[:stop]
Slice(list, stop) == SubSeq(list, 1, IF stop < Len(list) THEN stop ELSE Len(list))

\* GET.get('recipes_limit', 10 ** 10): the text of the parameter or the default
Limit(GET) == Pop(GET, "recipes_limit", DefaultLimit)

\* int(...) of the limit and the slice raise on a text that is no numeral
\* (ValueError) and on a negative number (negative indexing of a queryset)
LimitRaises(GET) ==
    /\ "recipes_limit" \in DOMAIN GET
    /\ \/ GET["recipes_limit"] \notin DOMAIN Numerals
       \/ Numerals[GET["recipes_limit"]] < 0

\* a get_recipes that ignores recipes_limit
get_recipes_unlimited(listing, GET) == listing

\* FollowedUserSerializer.get_recipes on obj.recipes.all() in the order the
\* database lists it
get_recipes(listing, GET) ==
    Slice(listing, IF "recipes_limit" \in DOMAIN GET
                   THEN Numerals[GET["recipes_limit"]] ELSE Limit(GET))

\* obj.recipes: the recipes of the author
RecipesOf(author) == {r \in DOMAIN recipes : recipes[r].author = author}

\* FollowedUserSerializer.recipes_count, source='recipes.count'
recipes_count(author) == Cardinality(RecipesOf(author))

\* User.objects.filter(pk__in=Follow.objects.filter(follower=user)
\*                               .values_list('author__id', flat=True))
FollowedAuthors(user) == {a \in Users : CopiesIn(<<user, a>>, follows) > 0}

\* authors on one page of RecipePagination
PageSize == 6

\* RecipePagination.paginate_queryset: the first page of the authors
paginate_queryset(authors) == Slice(authors, PageSize)

\* UserWithSubscriptionViewSet.subscriptions behind IsAuthenticated, with
\* FollowedUserSerializer(many=True) on the page of authors
Subscriptions(p) ==
    /\ pc[p] = "idle"
    /\ \E user \in Users \cup {Anonymous}, GET \in Queries :
          /\ req' = [req EXCEPT ![p] = [kind |-> "subscriptions", user |-> user,
                                         GET |-> GET]]
          /\ IF user = Anonymous
             THEN Done(p, 401, {})
             ELSE \E authors \in Arrangements(FollowedAuthors(user)) :
                     LET page == paginate_queryset(authors)
                     IN IF page # <<>> /\ LimitRaises(GET)
                        THEN Done(p, 500, {})
                        ELSE \E listing \in [Range(page) ->
                                               UNION {Arrangements(RecipesOf(a)) :
                                                          a \in Range(page)}] :
                                /\ \A a \in Range(page) :
                                      listing[a] \in Arrangements(RecipesOf(a))
                                /\ pc' = [pc EXCEPT ![p] = "done"]
                                /\ resp' = [resp EXCEPT ![p] =
                                      [status |-> 200, errors |-> {},
                                       results |->
                                          [i \in DOMAIN page |->
                                              [id |-> page[i],
                                               recipes |-> get_recipes(listing[page[i]], GET),
                                               recipes_count |-> recipes_count(page[i])]]]]
    /\ UNCHANGED <<db, edges, snap, offline>>

\* two recipes of any authors, any follow rows between the users
InitSubs ==
    /\ \E author \in [ReadRecipeIds -> Users] :
          recipes = [r \in ReadRecipeIds |-> [StoredRecipe EXCEPT !.author = author[r]]]
    /\ recipe_tags = SetToBag({<<r, 1>> : r \in ReadRecipeIds})
    /\ recipe_ingredients =
          SetToBag({[recipe |-> r, ingredient |-> 1, amount |-> 1] : r \in ReadRecipeIds})
    /\ favorites = EmptyBag
    /\ cart = EmptyBag
    /\ \E rows \in SUBSET {e \in Users \X Users : e[1] # e[2]} : follows = SetToBag(rows)
    /\ pc = [p \in Procs |-> "idle"]
    /\ req = [p \in Procs |-> NoReq]
    /\ resp = [p \in Procs |-> NoResp]
    /\ snap = [p \in Procs |-> NoSnap]
    /\ InitOffline

NextSubs ==
    \/ Subscriptions(Worker)
    \/ Return(Worker) /\ UNCHANGED <<snap, offline>>

SpecSubs == InitSubs /\ [][NextSubs]_vars

(* ------------------ retrieve, destroy and set_image ------------------- *)

\* rest_framework.permissions.SAFE_METHODS
SAFE_METHODS == {"GET", "HEAD", "OPTIONS"}

\* IsAuthenticatedOrReadOnly.has_permission of permission_classes
IsAuthenticatedOrReadOnly(method, user) == method \in SAFE_METHODS \/ user # Anonymous

\* instance.delete() of destroy: the row of the recipe goes, and with it the
\* rows of the other tables that reference it (on_delete=CASCADE)
Cascade(recipe) ==
    /\ recipes' = [r \in DOMAIN recipes \ {recipe} |-> recipes[r]]
    /\ recipe_tags' = BagFilter(recipe_tags, [x \in DOMAIN recipe_tags |-> x[1] # recipe])
    /\ recipe_ingredients' = DeleteIngredients(recipe_ingredients, recipe)
    /\ favorites' = BagFilter(favorites, [x \in DOMAIN favorites |-> x[2] # recipe])
    /\ cart' = BagFilter(cart, [x \in DOMAIN cart |-> x[2] # recipe])
    /\ UNCHANGED follows

\* RecipeViewSet retrieve and destroy: permission_classes, get_object with
\* the object permission, then the read or the delete
Access(p) ==
    /\ pc[p] = "idle"
    /\ \E method \in {"GET", "DELETE"}, user \in Users \cup {Anonymous},
          pk \in RecipeIds \cup {UnknownId} :
          /\ req' = [req EXCEPT ![p] = [kind |-> "access", method |-> method,
                                         user |-> user, pk |-> pk]]
          /\ IF ~IsAuthenticatedOrReadOnly(method, user)
             THEN Done(p, 401, {}) /\ UNCHANGED <<db, edges>>
             ELSE IF pk \notin DOMAIN recipes
             THEN Done(p, 404, {}) /\ UNCHANGED <<db, edges>>
             ELSE IF ~IsAuthorOrReadOnly(method, recipes[pk], user)
             THEN Done(p, 403, {}) /\ UNCHANGED <<db, edges>>
             ELSE IF method = "GET"
             THEN Done(p, 200, {}) /\ UNCHANGED <<db, edges>>
             ELSE Done(p, 204, {}) /\ Cascade(pk)

\* getattr(request, 'recipe', None) of set_image: the recipes the attribute
\* can hold; nothing sets it, so it is the default None
request_recipe(request) == {}

\* RecipeViewSet.set_image (AllowAny)
SetImage(p) ==
    /\ pc[p] = "idle"
    /\ \E user \in Users \cup {Anonymous}, image \in {"", "data:image/png;base64"} :
          LET request == [kind |-> "set_image", method |-> "PUT", user |-> user,
                          image |-> image]
          IN /\ req' = [req EXCEPT ![p] = request]
             /\ IF request_recipe(request) = {}
                THEN Done(p, 404, {}) /\ UNCHANGED db
                ELSE IF image = ""
                THEN Done(p, 400, {}) /\ UNCHANGED db
                ELSE \E recipe \in request_recipe(request) :
                        /\ recipes' = [recipes EXCEPT ![recipe] =
                                           [image |-> image] @@ @]
                        /\ UNCHANGED <<recipe_tags, recipe_ingredients>>
                        /\ Done(p, 200, {})
    /\ UNCHANGED edges

\* the recipe requests of Spec together with retrieve, destroy and set_image,
\* served one after another
NextAccess ==
    \/ Next
    \/ Access(Worker) /\ UNCHANGED <<snap, offline>>
    \/ SetImage(Worker) /\ UNCHANGED <<snap, offline>>

SpecAccess == Init /\ [][NextAccess]_vars

(* ------------------------------ load command ------------------------- *)

\* most items in one JSON file
MaxItems == 2

\* files a load command is called on
Paths == {"tags.json", "more.json"}

\* values of the column of the model that carries a unique constraint
Slugs == {"s1", "s2"}

\* the items of a JSON file: the keyword arguments of one object of the model
Objects == [slug : Slugs, name : Names]

\* the unique constraint of the model: the INSERT of an object conflicts with
\* a row that has its slug
Conflict(rows, obj) == \E row \in rows : row.slug = obj.slug

RECURSIVE InsertIgnoringConflicts(_, _)
\* INSERT ... ON CONFLICT DO NOTHING for the objects in turn
InsertIgnoringConflicts(rows, objs) ==
    IF objs = <<>> THEN rows
    ELSE InsertIgnoringConflicts(IF Conflict(rows, Head(objs)) THEN rows
                                 ELSE rows \cup {Head(objs)},
                                 Tail(objs))

\* model.objects.bulk_create(objs, ignore_conflicts=True): the table after the
\* insert and the list it returns, which holds every object it was given
bulk_create(rows, objs) ==
    [rows |-> InsertIgnoringConflicts(rows, objs), created |-> objs]

\* BaseLoadCommand.handle up to the end of the try block: open() and
\* json.load() give the list of items or raise, and then the error is written
LoadFile(p) ==
    /\ pc[p] = "idle"
    /\ \E file_path \in Paths, readable \in BOOLEAN, data \in SeqsUpTo(Objects, MaxItems) :
          /\ ~readable => data = <<>>
          /\ req' = [req EXCEPT ![p] = [kind |-> "load", file_path |-> file_path,
                                         readable |-> readable, data |-> data]]
          /\ IF readable
             THEN /\ pc' = [pc EXCEPT ![p] = "bulk_create"]
                  /\ console' = NoOutput
             ELSE /\ pc' = [pc EXCEPT ![p] = "done"]
                  /\ console' = [stdout |-> <<>>, stderr |-> <<"error", file_path>>]
    /\ UNCHANGED <<db, edges, resp, snap, model_table, last_download>>

\* BaseLoadCommand.handle after the try block: bulk_create, count, the message
LoadCreate(p) ==
    /\ pc[p] = "bulk_create"
    /\ LET result == bulk_create(model_table, req[p].data)
           count == Len(result.created)
       IN /\ model_table' = result.rows
          /\ console' = [stdout |-> <<"added", count, req[p].file_path>>,
                         stderr |-> <<>>]
    /\ pc' = [pc EXCEPT ![p] = "done"]
    /\ UNCHANGED <<db, edges, req, resp, snap, last_download>>

\* load commands run one after another on a table that starts empty
NextLoad ==
    \/ LoadFile(Worker)
    \/ LoadCreate(Worker)
    \/ Return(Worker) /\ UNCHANGED <<snap, offline>>

SpecLoad == Init /\ [][NextLoad]_vars

(* ------------------------------ properties --------------------------- *)

RecipeRequest(p) == pc[p] # "idle" /\ req[p].kind = "recipe"

\* the request went through the serializer and was answered
Answered(p) == RecipeRequest(p) /\ pc[p] = "done" /\ resp[p].status \in {200, 201, 400}

IngredientRows(r) ==
    BagFilter(recipe_ingredients, [x \in DOMAIN recipe_ingredients |-> x.recipe = r])

TagRows(r) == BagFilter(recipe_tags, [x \in DOMAIN recipe_tags |-> x[1] = r])

\* no request is between the first and the last statement of save()
Quiescent == \A p \in Procs : pc[p] \notin WritePcs

\* the recipe tables change only in the statements of save(), which run after
\* is_valid has passed
WritesFollowValidation ==
    \/ UNCHANGED db
    \/ \E p \in Procs : pc[p] \in WritePcs /\ pc'[p] # pc[p]

\* C1: a recipe create or update in which a statement fails partway leaves the
\* recipe row, the tag set and the ingredient lines as they were before the
\* operation started: none of its sub-writes is visible
C1_AllOrNothing ==
    \A p \in Procs :
        (RecipeRequest(p) /\ pc[p] = "done" /\ resp[p].status = 500) => db = snap[p]

\* the request was answered with success
Succeeded(p) == Answered(p) /\ resp[p].status \in {200, 201}

C2_Persisted ==
    \A p \in Procs :
        Succeeded(p) =>
            LET rows == IngredientRows(req[p].pk)
            IN  /\ DOMAIN rows # {}
                /\ \A x \in DOMAIN rows : rows[x] = 1 /\ x.amount >= 1
                /\ \A x, y \in DOMAIN rows : x.ingredient = y.ingredient => x = y
                /\ recipes[req[p].pk].cooking_time >= 1

C2_Rejected ==
    \A p \in Procs :
        (RecipeRequest(p) /\ req[p].violates \cap {"ingredients", "cooking_time"} # {})
            => /\ pc[p] \notin WritePcs
               /\ pc[p] = "done" => resp[p].status \notin {200, 201}
               /\ Answered(p) => resp[p].status = 400

\* C2: the recipe a successful create or update has written has a non-empty
\* ingredient list without a repeated ingredient id, every amount >= 1 and
\* cooking_time >= 1; a submission that breaks one of these never reaches a
\* write and is not answered with success, and the recipe tables change in no
\* step before validation has passed
C2_IngredientInvariant ==
    [](C2_Persisted /\ C2_Rejected) /\ [][WritesFollowValidation]_vars

\* a successful update has stored two ingredient lines
C2_Witness ==
    /\ Answered(Worker) /\ resp[Worker].status = 200
    /\ Cardinality(DOMAIN IngredientRows(req[Worker].pk)) = 2

C3_Persisted ==
    Quiescent =>
        \A r \in DOMAIN recipes :
            LET rows == TagRows(r)
            IN  /\ DOMAIN rows # {}
                /\ \A x \in DOMAIN rows : rows[x] = 1

C3_Rejected ==
    \A p \in Procs :
        (Answered(p) /\ "tags" \in req[p].violates) => resp[p].status = 400

\* C3: when no write is in flight every persisted recipe has a non-empty tag
\* set without a repeated tag id; a submission whose tag list is empty or
\* repeats an id is answered 400 and the recipe tables change in no step
\* before validation has passed
C3_TagInvariant ==
    [](C3_Persisted /\ C3_Rejected) /\ [][WritesFollowValidation]_vars

\* a successful update has stored two tags
C3_Witness ==
    /\ Answered(Worker) /\ resp[Worker].status = 200
    /\ Cardinality(DOMAIN TagRows(req[Worker].pk)) = 2

\* the ingredient ids the error of the response names as not existing
NamedUnknown(p) ==
    UNION {e.ids : e \in {x \in resp[p].errors :
                             x.field = "ingredients" /\ x.code = "does_not_exist"}}

C4_Rejected ==
    \A p \in Procs :
        (Answered(p) /\ req[p].submitted \ IngredientCatalog # {})
            => /\ resp[p].status = 400
               /\ NamedUnknown(p) = req[p].submitted \ IngredientCatalog

C4_Referential ==
    \A x \in DOMAIN recipe_ingredients : x.ingredient \in IngredientCatalog

\* C4: a create or update whose ingredient submission contains an id outside
\* the catalog is answered 400 with an error naming every such id, the recipe
\* tables change in no step before validation has passed, and every persisted
\* ingredient line references an ingredient of the catalog
C4_UnknownIngredient ==
    [](C4_Rejected /\ C4_Referential) /\ [][WritesFollowValidation]_vars

\* an update of an existing recipe that submitted two unknown ids was rejected
C4_Witness ==
    /\ Answered(Worker) /\ req[Worker].method \in {"PUT", "PATCH"}
    /\ req[Worker].submitted = UnknownIds
    /\ resp[Worker].status = 400

\* the ingredient lines an update submitted, as rows of its recipe
SubmittedRows(p) ==
    create_ingredients(EmptyBag, req[p].data["ingredients"], req[p].pk)

\* C5: once two concurrent updates of the same recipe have both completed, the
\* ingredient lines of the recipe are exactly the list one of them submitted,
\* under every interleaving of their statements
C5_WholesaleReplace ==
    (\A p \in Procs : RecipeRequest(p) /\ pc[p] = "done" /\ resp[p].status = 200)
        => \E p \in Procs : IngredientRows(req[p].pk) = SubmittedRows(p)

C6_Rejected ==
    \A p \in Procs :
        (/\ Answered(p) /\ req[p].method \in {"PUT", "PATCH"}
         /\ {"tags", "ingredients"} \ req[p].keys # {})
            => resp[p].status = 400

C7_AuthorImmutable ==
    [][/\ \A r \in DOMAIN recipes :
            r \in DOMAIN recipes' /\ recipes'[r].author = recipes[r].author
       /\ \A r \in DOMAIN recipes' \ DOMAIN recipes :
            \E p \in Procs : pc[p] = "c_row" /\ recipes'[r].author = req[p].user]_vars

\* an update whose body carried an author key has been saved
C7_Witness ==
    /\ Answered(Worker) /\ resp[Worker].status = 200
    /\ "author" \in req[Worker].keys

EdgeKinds == {"favorite", "shopping_cart", "subscribe"}

EdgeRequestOf(p) == pc[p] # "idle" /\ req[p].kind \in EdgeKinds

\* the request p has taken a step of its handler
Stepped(p) == pc'[p] # pc[p]

\* C8: under every interleaving of concurrent add, remove, follow and unfollow
\* requests each (user, recipe) pair has at most one favorite row and at most
\* one cart row, and each (follower, author) pair at most one follow row
C8_UniqueEdges ==
    /\ \A e \in DOMAIN favorites : favorites[e] <= 1
    /\ \A e \in DOMAIN cart : cart[e] <= 1
    /\ \A e \in DOMAIN follows : follows[e] <= 1

\* two simultaneous adds of one pair: both found no row, one has inserted it
\* and the other is about to insert it again
C8_Witness ==
    \E p, q \in Procs :
        /\ p # q
        /\ EdgeRequestOf(p) /\ EdgeRequestOf(q)
        /\ req[p].kind = req[q].kind /\ req[p].edge = req[q].edge
        /\ pc[p] = "done" /\ resp[p].status = 201
        /\ pc[q] \in {"goc_create", "f_save"}

\* C9 as stated: an add of a pair that has an edge completes without error
C9_IdempotentAdd ==
    \A p \in Procs :
        (/\ EdgeRequestOf(p) /\ req[p].kind \in {"favorite", "shopping_cart"}
         /\ req[p].method = "POST" /\ pc[p] = "done" /\ req[p].found)
            => resp[p].status \in {200, 201}

C9_Answer ==
    \A p \in Procs :
        (/\ EdgeRequestOf(p) /\ req[p].kind \in {"favorite", "shopping_cart"}
         /\ req[p].method = "POST" /\ pc[p] = "done" /\ req[p].found)
            => resp[p].status = 400

C9_Step ==
    \A p \in Procs :
        (/\ pc[p] \in {"goc_get", "goc_reget"} /\ Stepped(p)
         /\ Exists(Table(req[p].kind), req[p].edge))
            => /\ pc'[p] = "done" /\ resp'[p].status = 400
               /\ UNCHANGED edges

\* C9 amended: an add of a favorite or cart pair that has an edge is answered
\* with a validation error (400) and leaves every edge table as it was
C9_RepeatedAddRejected == []C9_Answer /\ [][C9_Step]_vars

\* a repeated add of a favorite was rejected and the pair still has one row
C9_Witness ==
    \E p \in Procs :
        /\ EdgeRequestOf(p) /\ req[p].kind = "favorite" /\ req[p].method = "POST"
        /\ pc[p] = "done" /\ req[p].found /\ resp[p].status = 400
        /\ CopiesIn(req[p].edge, favorites) = 1

C10_Answer ==
    \A p \in Procs :
        (/\ EdgeRequestOf(p) /\ req[p].method = "DELETE"
         /\ pc[p] = "done" /\ ~req[p].found)
            => resp[p].status \in {401, 404}

C10_Step ==
    \A p \in Procs :
        (/\ pc[p] = "rm_get" /\ Stepped(p)
         /\ ~Exists(Table(req[p].kind), req[p].edge))
            => /\ pc'[p] = "done" /\ resp'[p].status = 404
               /\ UNCHANGED edges

\* C10: a favorite or cart remove and an unfollow whose lookup finds no edge
\* for the pair are answered 404 and leave every edge table as it was; no
\* remove that found no edge is answered with success
C10_RemoveMissing == []C10_Answer /\ [][C10_Step]_vars

\* a favorite remove and an unfollow, both by a signed-in user for a pair
\* without an edge, were answered 404
C10_Witness ==
    \E p, q \in Procs :
        /\ EdgeRequestOf(p) /\ EdgeRequestOf(q)
        /\ req[p].kind = "favorite" /\ req[q].kind = "subscribe"
        /\ req[p].method = "DELETE" /\ req[q].method = "DELETE"
        /\ req[p].pk \in DOMAIN recipes /\ req[q].pk \in Users
        /\ req[p].user \in Users /\ req[q].user \in Users
        /\ pc[p] = "done" /\ pc[q] = "done"
        /\ resp[p].status = 404 /\ resp[q].status = 404

\* the request is a follow request (POST subscribe) of a signed-in user
FollowRequest(p) ==
    /\ EdgeRequestOf(p) /\ req[p].kind = "subscribe" /\ req[p].method = "POST"
    /\ req[p].user \in Users

C14_NoSelfEdge == \A e \in DOMAIN follows : e[1] # e[2]

C14_Answer ==
    \A p \in Procs :
        (FollowRequest(p) /\ req[p].pk = req[p].user /\ pc[p] = "done")
            => resp[p].status = 400

\* C14: a follow request of a user for themselves is answered 400, and in
\* every reachable state no follow row has the follower as its author
C14_SelfFollowRejected == C14_NoSelfEdge /\ C14_Answer

\* a user who follows the other user and is followed by them has asked to
\* follow themselves and was rejected
C14_Witness ==
    \E p \in Procs :
        /\ FollowRequest(p) /\ req[p].pk = req[p].user
        /\ pc[p] = "done" /\ resp[p].status = 400
        /\ \E u \in Users \ {req[p].user} :
              /\ CopiesIn(<<req[p].user, u>>, follows) = 1
              /\ CopiesIn(<<u, req[p].user>>, follows) = 1

C15_Answer ==
    \A p \in Procs :
        (FollowRequest(p) /\ pc[p] = "done" /\ req[p].found) => resp[p].status = 400

C15_Step ==
    \A p \in Procs :
        (FollowRequest(p) /\ Stepped(p)) =>
            /\ (pc[p] = "f_valid" /\ Exists(follows, req[p].edge))
                  => /\ pc'[p] = "done" /\ resp'[p].status = 400
                     /\ UNCHANGED edges
            /\ (pc[p] = "f_save" /\ ~Exists(follows, req[p].edge))
                  => /\ pc'[p] = "done" /\ resp'[p].status = 201
                     /\ follows' = follows (+) SetToBag({<<req[p].user, req[p].pk>>})
                     /\ UNCHANGED <<favorites, cart>>
            /\ follows' # follows => pc[p] = "f_save" /\ ~Exists(follows, req[p].edge)

\* C15: a follow request for another user whose pair has a follow row when
\* the serializer looks it up is answered 400 and changes no edge; one whose
\* pair has no row inserts exactly the row (follower, author), answers 201 and
\* changes no other edge; a follow request changes the follow table in no
\* other step
C15_Follow == []C15_Answer /\ [][C15_Step]_vars

\* a second follow of the same author was rejected and the pair has one row
C15_Witness ==
    \E p \in Procs :
        /\ FollowRequest(p) /\ req[p].pk # req[p].user
        /\ pc[p] = "done" /\ req[p].found /\ resp[p].status = 400
        /\ CopiesIn(req[p].edge, follows) = 1

(* ---------------- properties of the shopping list and lists ----------- *)

\* the request is a shopping-list download that was answered with the list
Downloaded(p) ==
    pc[p] = "done" /\ req[p].kind = "download" /\ resp[p].status = 200

\* the step is the handler download_shopping_cart run by worker p
DownloadStep(p) == pc[p] = "idle" /\ pc'[p] = "done" /\ req'[p].kind = "download"

\* the ingredient lines of the recipes in the cart of user whose ingredient
\* has this name and unit
Counted(user, name, unit) ==
    {x \in DOMAIN recipe_ingredients :
        /\ <<user, x.recipe>> \in DOMAIN cart
        /\ Ingredient[x.ingredient].name = name
        /\ Ingredient[x.ingredient].measurement_unit = unit}

\* the (name, unit) pairs that occur in the recipes of the cart of user
CartGroups(user) ==
    {<<Ingredient[x.ingredient].name, Ingredient[x.ingredient].measurement_unit>> :
        x \in {y \in DOMAIN recipe_ingredients : <<user, y.recipe>> \in DOMAIN cart}}

\* C11: a downloaded shopping list has exactly one line per (name, unit) pair
\* that occurs in the recipes of the user's cart, the total of a line is the
\* sum of the amounts of all ingredient lines of those recipes with that name
\* and unit, and the lines are in ascending order of the ingredient name
C11_Aggregation ==
    \A p \in Procs :
        Downloaded(p) =>
            LET lines == resp[p].lines
                user == req[p].user
            IN  /\ {<<lines[i][1], lines[i][2]>> : i \in DOMAIN lines} = CartGroups(user)
                /\ Len(lines) = Cardinality(CartGroups(user))
                /\ \A i \in DOMAIN lines :
                      lines[i][3] = SumAmount(recipe_ingredients,
                                              Counted(user, lines[i][1], lines[i][2]))
                /\ \A i, j \in DOMAIN lines :
                      i < j => NameRank(lines[i][1]) <= NameRank(lines[j][1])

\* a list was downloaded in which one line sums two ingredients of different
\* id from two recipes of the cart, another line has the same name and a
\* different unit, and a recipe outside the cart holds a line that is not counted
C11_Witness ==
    /\ Downloaded(Worker)
    /\ \E i, j \in DOMAIN resp[Worker].lines :
          /\ resp[Worker].lines[i][1] = resp[Worker].lines[j][1]
          /\ resp[Worker].lines[i][2] # resp[Worker].lines[j][2]
    /\ \E x, y \in DOMAIN recipe_ingredients :
          /\ x.recipe # y.recipe /\ x.ingredient # y.ingredient
          /\ Ingredient[x.ingredient] = Ingredient[y.ingredient]
          /\ <<req[Worker].user, x.recipe>> \in DOMAIN cart
          /\ <<req[Worker].user, y.recipe>> \in DOMAIN cart
    /\ \E u \in Users \ {req[Worker].user}, r \in DOMAIN recipes : <<u, r>> \in DOMAIN cart

\* C12: a download by the user who made the previous download, with no change
\* of carts or recipes in between, returns the same lines in the same order
C12_SameOutput ==
    [][\A p \in Procs :
          (/\ DownloadStep(p)
           /\ resp'[p].status = 200
           /\ last_download.status = 200
           /\ last_download.user = req'[p].user)
              => resp'[p].lines = last_download.lines]_vars

C13_Unchanged == (\E p \in Procs : DownloadStep(p)) => UNCHANGED <<db, edges>>

C13_EmptyCart ==
    \A p \in Procs :
        (/\ pc[p] = "done" /\ req[p].kind = "download"
         /\ req[p].user \in Users
         /\ \A r \in DOMAIN recipes : <<req[p].user, r>> \notin DOMAIN cart)
            => resp[p].status = 200 /\ resp[p].lines = <<>>

\* C13: download_shopping_cart changes no cart row, no favorite row, no recipe
\* and no ingredient line, and for a user with an empty cart it answers 200
\* with an empty list
C13_PureRead == []C13_EmptyCart /\ [][C13_Unchanged]_vars

\* a user with an empty cart has downloaded the list while the other user has
\* a recipe in the cart
C13_Witness ==
    /\ pc[Worker] = "done" /\ req[Worker].kind = "download"
    /\ req[Worker].user \in Users
    /\ \A r \in DOMAIN recipes : <<req[Worker].user, r>> \notin DOMAIN cart
    /\ cart # EmptyBag

\* C18: the recipe list is restricted to the recipes in the cart of the
\* requesting user exactly when is_in_shopping_cart is a true value and the
\* user is authenticated; a false value, an absent parameter and an anonymous
\* user give all recipes
C18_FilterOnlyWhenTrue ==
    \A p \in Procs :
        (pc[p] = "done" /\ req[p].kind = "list") =>
            resp[p].results =
                IF req[p].user # Anonymous /\ req[p].is_in_shopping_cart \in {"1", "true"}
                THEN {r \in DOMAIN recipes : <<req[p].user, r>> \in DOMAIN cart}
                ELSE DOMAIN recipes

(* ------------------------ properties of subscriptions ----------------- *)

\* the request is a subscriptions listing that was answered
Listed(p) == pc[p] = "done" /\ req[p].kind = "subscriptions" /\ req[p].user \in Users

\* the request supplied a recipes_limit L >= 0
LimitSupplied(p) ==
    /\ "recipes_limit" \in DOMAIN req[p].GET
    /\ req[p].GET["recipes_limit"] \in {"0", "1", "2", "3"}

\* the number of recipes the claim promises for an author with n recipes
Promised(p, n) ==
    IF LimitSupplied(p)
    THEN LET L == Numerals[req[p].GET["recipes_limit"]] IN IF L < n THEN L ELSE n
    ELSE n

\* C16: a subscriptions listing with no recipes_limit or with a limit L >= 0
\* is answered 200, lists only authors the requesting user follows, and gives
\* for each of them min(L, N) of their N recipes (all N without a limit), no
\* recipe twice, together with recipes_count = N
C16_RecipesLimit ==
    \A p \in Procs :
        (Listed(p) /\ (LimitSupplied(p) \/ req[p].GET = <<>>)) =>
            /\ resp[p].status = 200
            /\ \A i \in DOMAIN resp[p].results :
                  LET entry == resp[p].results[i]
                      N == Cardinality({r \in DOMAIN recipes : recipes[r].author = entry.id})
                  IN  /\ <<req[p].user, entry.id>> \in DOMAIN follows
                      /\ Len(entry.recipes) = Promised(p, N)
                      /\ Cardinality(Range(entry.recipes)) = Len(entry.recipes)
                      /\ \A r \in Range(entry.recipes) : recipes[r].author = entry.id
                      /\ entry.recipes_count = N

\* a listing with a limit below the number of recipes of the followed author:
\* one recipe listed, recipes_count 2, while the other user is not followed back
C16_Witness ==
    /\ Listed(Worker) /\ LimitSupplied(Worker) /\ resp[Worker].status = 200
    /\ Len(resp[Worker].results) = 1
    /\ Len(resp[Worker].results[1].recipes) = 1
    /\ resp[Worker].results[1].recipes_count = 2
    /\ Cardinality(DOMAIN follows) = 1

(* --------------------- properties of the permissions ------------------ *)

\* the request addresses one recipe: create, update, retrieve or destroy
OnRecipe(p) == pc[p] # "idle" /\ req[p].kind \in {"recipe", "access"}

C17_Denied ==
    \A p \in Procs :
        (/\ OnRecipe(p) /\ pc[p] = "done"
         /\ req[p].method \in {"PUT", "PATCH", "DELETE"}
         /\ req[p].pk \in DOMAIN recipes
         /\ recipes[req[p].pk].author # req[p].user)
            => resp[p].status \in {401, 403}

C17_Read ==
    \A p \in Procs :
        (/\ OnRecipe(p) /\ pc[p] = "done" /\ req[p].method = "GET"
         /\ req[p].pk \in DOMAIN recipes)
            => resp[p].status = 200

\* the recipe tables change only in a step of a create or of an update or
\* destroy by the author of the recipe it addresses
C17_Writer ==
    \/ UNCHANGED db
    \/ \E p \in Procs :
          /\ Stepped(p)
          /\ req'[p].kind \in {"recipe", "access"}
          /\ \/ req'[p].method = "POST"
             \/ /\ req'[p].method \in {"PUT", "PATCH", "DELETE"}
                /\ req'[p].pk \in DOMAIN recipes
                /\ recipes[req'[p].pk].author = req'[p].user

\* C17: an update or delete of a recipe by an anonymous user or by a user
\* other than its author is answered 401 or 403, a read of a stored recipe is
\* answered 200 for every caller, and the recipe, tag and ingredient tables
\* change only in steps of a create or of a request of the author of the
\* recipe: in no step of a denied request and in no step of set_image
C17_AuthorOnly == [](C17_Denied /\ C17_Read) /\ [][C17_Writer]_vars

\* a user other than the author asked to delete a stored recipe and was denied
C17_Witness ==
    /\ pc[Worker] = "done" /\ req[Worker].kind = "access"
    /\ req[Worker].method = "DELETE" /\ req[Worker].user \in Users
    /\ req[Worker].pk \in DOMAIN recipes
    /\ recipes[req[Worker].pk].author # req[Worker].user
    /\ resp[Worker].status = 403
    /\ IngredientRows(req[Worker].pk) # EmptyBag

(* --------------------- properties of the load command ----------------- *)

\* the step is the run of handle() by p reaching its end
LoadEnds(p) == req[p].kind = "load" /\ pc[p] # "done" /\ pc'[p] = "done"

C19_Count ==
    \A p \in Procs :
        (LoadEnds(p) /\ pc[p] = "bulk_create") =>
            /\ console'.stdout # <<>>
            /\ console'.stdout[2] = Cardinality(model_table') - Cardinality(model_table)

C19_Unreadable ==
    \A p \in Procs :
        (pc[p] = "idle" /\ pc'[p] = "done" /\ req'[p].kind = "load") =>
            /\ console'.stderr # <<>> /\ console'.stdout = <<>>
            /\ model_table' = model_table

\* C19: the count in the success message of a load equals the number of rows
\* the run has inserted into the table, also when items of the file conflict
\* with rows already there; a file that cannot be read gives an error
\* message, no success message and no new row
C19_ReportedCount == [][C19_Count /\ C19_Unreadable]_vars

====
